---- MODULE Spec2Model ----
(***************************************************************************)
(* Hackathon scoring: the score ledger (scores.csv guarded by a FileLock)  *)
(* and the per-judge z-score normalization of src/app.py.                  *)
(*                                                                         *)
(* A worker is one operating-system process that imported app.py: it runs  *)
(* init_scores_file() once at start-up and then serves calls of            *)
(* save_scores (Upsert), get_all_scores (ReadAll) and normalize_scores.    *)
(* The configuration file is re-read on every call and may be edited       *)
(* between any two steps.                                                  *)
(***************************************************************************)
EXTENDS Integers, Sequences, FiniteSets, TLC

(* ------------------------------ bounds --------------------------------- *)
NumWorkers == 2
MaxClock == 3

Workers == 1..NumWorkers

\* the usernames of config['judges']
Judges == {"A", "B"}

\* config['teams']
Teams == <<[id |-> "T1", name |-> "Alpha"], [id |-> "T2", name |-> "Beta"]>>

FormX == [c1 |-> 5, c2 |-> 3, c3 |-> 1]
FormY == [c1 |-> 2, c2 |-> 4]
\* the submissions judges make in the model: judge, index of the team, posted form
Submissions == { [judge |-> "A", team |-> 1, form |-> FormX],
                 [judge |-> "B", team |-> 2, form |-> FormY] }


\* the alternative contents of config['criteria'] an editor switches between
CriteriaA == <<[id |-> "c1", max_score |-> 5], [id |-> "c2", max_score |-> 5]>>
CriteriaB == <<[id |-> "c2", max_score |-> 5], [id |-> "c1", max_score |-> 5],
               [id |-> "c3", max_score |-> 5]>>
CriteriaConfigs == {CriteriaA, CriteriaB}

CriteriaIds(crit) == [i \in 1..Len(crit) |-> crit[i].id]
IdSet(crit) == {crit[i].id : i \in 1..Len(crit)}

(* ------------------------------ csv cells ------------------------------ *)
Digit(d) == CASE d = 0 -> "0" [] d = 1 -> "1" [] d = 2 -> "2" [] d = 3 -> "3"
              [] d = 4 -> "4" [] d = 5 -> "5" [] d = 6 -> "6" [] d = 7 -> "7"
              [] d = 8 -> "8" [] d = 9 -> "9"

RECURSIVE FormatInt(_)
\* str(n), the text csv.writer puts in a cell for the integer n
FormatInt(n) ==
  IF n < 0 THEN "-" \o FormatInt(0 - n)
  ELSE IF n < 10 THEN Digit(n) ELSE FormatInt(n \div 10) \o Digit(n % 10)

\* datetime.now().isoformat(): the text of the clock reading
IsoFormat(t) == "t" \o FormatInt(t)

\* the largest integer a cell is parsed as in the model
MaxCell == 100
CellText == [n \in 0..MaxCell |-> FormatInt(n)]

\* pd.to_numeric(cell, errors='coerce') followed by fillna(0): the number the
\* text stands for; anything else (None, text that is no number) becomes NaN, then 0
ToNumeric(cell) ==
  IF \E n \in 0..MaxCell : CellText[n] = cell
    THEN CHOOSE n \in 0..MaxCell : CellText[n] = cell
    ELSE 0

\* restval of csv.DictReader: the value of a column the row is too short for
None == "<None>"
\* restkey of csv.DictReader: the key that collects the cells beyond the header
RestKey == "<restkey>"

(* ----------------------------- posted forms --------------------------- *)
\* the form a browser posts for the numbers a judge entered
Posted(scores) == [c \in DOMAIN scores |-> FormatInt(scores[c])]

\* the texts of the negative integers
MinusText == [n \in 0..MaxCell |-> FormatInt(0 - n)]

\* int(score_value) at line 343 accepts the text: an integer, with or without sign
IsIntText(v) == \E n \in 0..MaxCell : v = CellText[n] \/ v = MinusText[n]

\* int(score_value) for a text it accepts
IntOf(v) ==
  IF \E n \in 0..MaxCell : v = CellText[n]
    THEN CHOOSE n \in 0..MaxCell : v = CellText[n]
    ELSE 0 - (CHOOSE n \in 0..MaxCell : v = MinusText[n])

Min(a, b) == IF a <= b THEN a ELSE b
Max(a, b) == IF a >= b THEN a ELSE b

\* the scores without the lower bound: min(score_value, c['max_score'])
ClampScoresNoFloor(form, crit) ==
  [cid \in IdSet(crit) |->
     LET c == crit[CHOOSE i \in 1..Len(crit) : crit[i].id = cid]
     IN IF cid \notin DOMAIN form THEN Min(0, c.max_score)
        ELSE IF IsIntText(form[cid]) THEN Min(IntOf(form[cid]), c.max_score)
        ELSE 0]

\* lines 340-349 of score_team: the scores dict built from the posted form,
\* request.form.get(c['id'], 0) made an int and clamped, 0 on ValueError
ClampScores(form, crit) ==
  [cid \in IdSet(crit) |->
     LET c == crit[CHOOSE i \in 1..Len(crit) : crit[i].id = cid]
     IN IF cid \notin DOMAIN form THEN Max(0, Min(0, c.max_score))
        ELSE IF IsIntText(form[cid]) THEN Max(0, Min(IntOf(form[cid]), c.max_score))
        ELSE 0]

\* lines 329-334 of score_team: the first team of the configuration with the id
NoTeam == [id |-> "", name |-> ""]
FindTeam(team_id) ==
  LET hits == {i \in 1..Len(Teams) : Teams[i].id = team_id}
  IN IF hits = {} THEN NoTeam ELSE Teams[CHOOSE i \in hits : \A k \in hits : i <= k]

(* ------------------------------- ledger -------------------------------- *)
Headers(crit) == <<"timestamp", "judge", "team_id", "team_name">> \o CriteriaIds(crit)

\* scores.get(cid, 0)
ScoresGet(scores, cid) == IF cid \in DOMAIN scores THEN scores[cid] ELSE 0

\* new_row as csv.writer writes it
NewRow(ts, judge, team_id, team_name, scores, crit) ==
  <<ts, judge, team_id, team_name>>
    \o [i \in 1..Len(crit) |-> FormatInt(ScoresGet(scores, crit[i].id))]

\* the columns counted from 1 instead of 0
RowMatchesShifted(row, judge, team_id) ==
  Len(row) >= 3 /\ row[1] = judge /\ row[2] = team_id

\* line 86: the row is of this judge and this team
RowMatches(row, judge, team_id) ==
  Len(row) >= 3 /\ row[2] = judge /\ row[3] = team_id

\* index (in existing_rows, header at 1) of the first row of (judge, team_id); 0 if none
FindRow(existing_rows, judge, team_id) ==
  LET hits == {i \in 2..Len(existing_rows) : RowMatches(existing_rows[i], judge, team_id)}
  IN IF hits = {} THEN 0 ELSE CHOOSE i \in hits : \A k \in hits : i <= k

\* the matching row is dropped and the new row appended
UpsertRowsMoveToEnd(loaded, ts, r, crit) ==
  LET existing_rows == IF loaded = <<>> THEN <<Headers(crit)>> ELSE loaded
      new_row == NewRow(ts, r.judge, r.team_id, r.team_name, r.scores, crit)
      i == FindRow(existing_rows, r.judge, r.team_id)
  IN IF i # 0
       THEN Append(SubSeq(existing_rows, 1, i - 1)
                     \o SubSeq(existing_rows, i + 1, Len(existing_rows)), new_row)
       ELSE Append(existing_rows, new_row)

\* lines 76-98 of save_scores: the rows written back
UpsertRows(loaded, ts, r, crit) ==
  LET existing_rows == IF loaded = <<>> THEN <<Headers(crit)>> ELSE loaded
      new_row == NewRow(ts, r.judge, r.team_id, r.team_name, r.scores, crit)
      i == FindRow(existing_rows, r.judge, r.team_id)
  IN IF i # 0 THEN [existing_rows EXCEPT ![i] = new_row]
     ELSE Append(existing_rows, new_row)

\* the column a field name stands for: the last one of that name
ColumnOf(fieldnames) ==
  [k \in {fieldnames[i] : i \in 1..Len(fieldnames)} |->
     CHOOSE i \in 1..Len(fieldnames) :
       /\ fieldnames[i] = k
       /\ \A m \in 1..Len(fieldnames) : fieldnames[m] = k => m <= i]

\* one record of csv.DictReader
DictRow(fieldnames, column, row) ==
  LET base == [k \in DOMAIN column |->
                 IF column[k] <= Len(row) THEN row[column[k]] ELSE None]
  IN IF Len(row) > Len(fieldnames)
       THEN base @@ (RestKey :> SubSeq(row, Len(fieldnames) + 1, Len(row)))
       ELSE base

\* list(csv.DictReader(f)): the first row names the columns; empty rows are skipped
DictRead(rows) ==
  IF rows = <<>> THEN <<>>
  ELSE LET body == SelectSeq(Tail(rows), LAMBDA r : r # <<>>)
           column == ColumnOf(rows[1])
       IN [i \in 1..Len(body) |-> DictRow(rows[1], column, body[i])]

(* ---------------------------- normalization --------------------------- *)
(* Scores with two decimals (normalized_score, avg_raw_score,              *)
(* avg_normalized_score) are kept in hundredths: 5000 stands for 50.00.    *)
(* A z-score is kept exactly as sgn * sqrt(num / den).                     *)

RECURSIVE SumSeq(_)
SumSeq(q) == IF q = <<>> THEN 0 ELSE Head(q) + SumSeq(Tail(q))

RECURSIVE UniqueInOrder(_)
\* Series.unique(): the distinct values in order of first appearance
UniqueInOrder(q) ==
  IF q = <<>> THEN <<>>
  ELSE LET front == UniqueInOrder(SubSeq(q, 1, Len(q) - 1))
           last == q[Len(q)]
       IN IF \E i \in 1..Len(front) : front[i] = last THEN front ELSE Append(front, last)

\* df.columns of pd.DataFrame(all_scores)
Columns(all_scores) == UNION {DOMAIN all_scores[i] : i \in 1..Len(all_scores)}

\* the cell of a record under a column of the frame (NaN where the record has none)
CellOf(rec, col) == IF col \in DOMAIN rec THEN rec[col] ELSE None

\* lines 154-159: total_raw of one record, every active column made numeric
TotalRaw(rec, criteria_ids) ==
  SumSeq([i \in 1..Len(criteria_ids) |-> ToNumeric(CellOf(rec, criteria_ids[i]))])

\* the standard deviation is not tested before the division
ZScoreNoStdTest(x, totals) ==
  LET n == Len(totals)
      s == SumSeq(totals)
      q == SumSeq([i \in 1..n |-> (n * totals[i] - s) * (n * totals[i] - s)])
      d == n * x - s
  IN IF n > 1
       THEN [sgn |-> IF d > 0 THEN 1 ELSE IF d < 0 THEN -1 ELSE 0,
             num |-> d * d * (n - 1), den |-> q]
       ELSE [sgn |-> 0, num |-> 0, den |-> 1]

\* the population standard deviation (ddof = 0) in place of the sample one
ZScorePopulation(x, totals) ==
  LET n == Len(totals)
      s == SumSeq(totals)
      q == SumSeq([i \in 1..n |-> (n * totals[i] - s) * (n * totals[i] - s)])
      d == n * x - s
  IN IF n > 1 /\ q > 0
       THEN [sgn |-> IF d > 0 THEN 1 ELSE IF d < 0 THEN -1 ELSE 0,
             num |-> d * d * n, den |-> q]
       ELSE [sgn |-> 0, num |-> 0, den |-> 1]

\* lines 167-179: the z-score of the total x among the totals of its judge
ZScore(x, totals) ==
  LET n == Len(totals)
      s == SumSeq(totals)
      q == SumSeq([i \in 1..n |-> (n * totals[i] - s) * (n * totals[i] - s)])
      d == n * x - s
  IN IF n > 1 /\ q > 0
       THEN [sgn |-> IF d > 0 THEN 1 ELSE IF d < 0 THEN -1 ELSE 0,
             num |-> d * d * (n - 1), den |-> q]
       ELSE [sgn |-> 0, num |-> 0, den |-> 1]

RECURSIVE LongDiv(_, _, _, _)
\* acc * 10^k + floor(10^k * r / b), r < b, one decimal digit at a time
LongDiv(r, b, k, acc) ==
  IF k = 0 THEN acc
  ELSE LongDiv((r * 10) % b, b, k - 1, acc * 10 + ((r * 10) \div b))

RECURSIVE ISqrtIn(_, _, _)
\* the largest k in lo..hi with k * k <= n
ISqrtIn(n, lo, hi) ==
  IF lo >= hi THEN lo
  ELSE LET mid == (lo + hi + 1) \div 2
       IN IF mid * mid <= n THEN ISqrtIn(n, mid, hi) ELSE ISqrtIn(n, lo, mid - 1)

\* the scale without the shift by 3: (z / 6 * 100).clip(0, 100).round(2)
NormalizedScoreNoShift(z) ==
  IF z.sgn <= 0 THEN 0
  ELSE IF z.num >= 9 * z.den THEN 5000
  ELSE (ISqrtIn(LongDiv(z.num, 9 * z.den, 8, 0), 0, 10000) + 1) \div 2

\* the scale without the clip: ((z + 3) / 6 * 100).round(2)
NormalizedScoreNoClip(z) ==
  LET b == 9 * z.den
      val == (z.num \div b) * 100000000 + LongDiv(z.num % b, b, 8, 0)
      k == ISqrtIn(val, 0, 40000)
  IN 5000 + z.sgn * ((k + 1) \div 2)

\* line 190: ((z + 3) / 6 * 100).clip(0, 100).round(2), in hundredths.
\* |z| >= 3 clips; otherwise 5000 |z| / 3 is rounded to the nearest integer
\* (it is never an exact half for the totals of the model).
NormalizedScore(z) ==
  IF z.num >= 9 * z.den
    THEN (IF z.sgn > 0 THEN 10000 ELSE 0)
    ELSE LET val == LongDiv(z.num, 9 * z.den, 8, 0)
             k == ISqrtIn(val, 0, 10000)
         IN 5000 + z.sgn * ((k + 1) \div 2)

\* round(a / m, 2) for a in hundredths: the nearest integer to a / m.  Python
\* rounds the binary64 value, so an exact half goes to either neighbour; the
\* model takes the even one.
RoundDiv(a, m) ==
  LET q == a \div m
      r == a % m
  IN IF 2 * r < m THEN q
     ELSE IF 2 * r > m THEN q + 1
     ELSE IF q % 2 = 0 THEN q ELSE q + 1

\* lines 164-190: result_df, the records grouped by judge in order of first
\* appearance, with total_raw and normalized_score
ResultFrame(all_scores, criteria_ids) ==
  LET n == Len(all_scores)
      total == [i \in 1..n |-> TotalRaw(all_scores[i], criteria_ids)]
      judges == UniqueInOrder([i \in 1..n |-> all_scores[i]["judge"]])
      RowsOf(j) == SelectSeq([i \in 1..n |-> i], LAMBDA i : all_scores[i]["judge"] = j)
      Group(j) ==
        LET idx == RowsOf(j)
            totals == [k \in 1..Len(idx) |-> total[idx[k]]]
        IN [k \in 1..Len(idx) |->
              [judge |-> j,
               team_id |-> all_scores[idx[k]]["team_id"],
               team_name |-> all_scores[idx[k]]["team_name"],
               total_raw |-> total[idx[k]],
               normalized_score |-> NormalizedScore(ZScore(total[idx[k]], totals))]]
      Concat[m \in 0..Len(judges)] ==
        IF m = 0 THEN <<>> ELSE Concat[m - 1] \o Group(judges[m])
  IN Concat[Len(judges)]

\* lines 193-218: one aggregate per team_id in order of first appearance
TeamResults(result_df) ==
  LET teams == UniqueInOrder([i \in 1..Len(result_df) |-> result_df[i].team_id])
      Aggregate(t) ==
        LET team_data == SelectSeq(result_df, LAMBDA r : r.team_id = t)
            m == Len(team_data)
        IN [team_id |-> t,
            team_name |-> team_data[1].team_name,
            avg_raw_score |->
              RoundDiv(100 * SumSeq([k \in 1..m |-> team_data[k].total_raw]), m),
            avg_normalized_score |->
              RoundDiv(SumSeq([k \in 1..m |-> team_data[k].normalized_score]), m),
            num_judges |-> m,
            judge_scores |-> [k \in 1..m |->
                                [judge |-> team_data[k].judge,
                                 raw_score |-> team_data[k].total_raw,
                                 normalized_score |-> team_data[k].normalized_score]]]
  IN [i \in 1..Len(teams) |-> Aggregate(teams[i])]

\* an element goes before the elements that have the same key
InsertDescUnstable(sorted, e) ==
  LET ahead == {i \in 1..Len(sorted) :
                  sorted[i].avg_normalized_score > e.avg_normalized_score}
      pos == IF ahead = {} THEN 0 ELSE CHOOSE i \in ahead : \A k \in ahead : k <= i
  IN SubSeq(sorted, 1, pos) \o <<e>> \o SubSeq(sorted, pos + 1, Len(sorted))

\* e goes behind every element whose key is not smaller
InsertDesc(sorted, e) ==
  LET ahead == {i \in 1..Len(sorted) :
                  sorted[i].avg_normalized_score >= e.avg_normalized_score}
      pos == IF ahead = {} THEN 0 ELSE CHOOSE i \in ahead : \A k \in ahead : k <= i
  IN SubSeq(sorted, 1, pos) \o <<e>> \o SubSeq(sorted, pos + 1, Len(sorted))

RECURSIVE SortDesc(_)
\* line 221: list.sort(key=avg_normalized_score, reverse=True), a stable sort
SortDesc(q) ==
  IF q = <<>> THEN <<>>
  ELSE InsertDesc(SortDesc(SubSeq(q, 1, Len(q) - 1)), q[Len(q)])

NoResult == [exc |-> "none", ranking |-> <<>>]

\* lines 141-223 of normalize_scores on the records get_all_scores returned:
\* the ranking, or the KeyError of df[criteria_ids] at line 159 when an active
\* criterion id is no column of the frame
NormalizeScores(all_scores, crit) ==
  IF all_scores = <<>> THEN NoResult
  ELSE IF ~(IdSet(crit) \subseteq Columns(all_scores))
    THEN [exc |-> "KeyError", ranking |-> <<>>]
    ELSE [exc |-> "none",
          ranking |-> SortDesc(TeamResults(ResultFrame(all_scores, CriteriaIds(crit))))]

(* ------------------------------- state --------------------------------- *)
VARIABLES
  fileExists,   \* os.path.exists(SCORES_FILE)
  file,         \* the rows of scores.csv
  criteria,     \* config['criteria'] as load_config() returns it now
  now,          \* the clock datetime.now() reads
  lock,         \* the worker holding scores.csv.lock, 0 when free
  pc,           \* where each worker is
  req,          \* the arguments of the worker's save_scores call
  loaded,       \* existing_rows as read at lines 70-73
  hdr,          \* headers of init_scores_file (line 57)
  snapshot,     \* what get_all_scores returned to the worker
  outcome,      \* how the worker's last call ended for its caller
  result,       \* what normalize_scores returned to the worker
  session       \* the Flask session of the client: the <<key, value>> pairs
                \* of the cookie its requests carry

vars == <<fileExists, file, criteria, now, lock, pc, req, loaded, hdr, snapshot,
          outcome, result, session>>

\* the session of a client that has not logged in
NoSession == {}

NoReq == [judge |-> "", team_id |-> "", team_name |-> "", scores |-> <<>>]
NoOutcome == [exc |-> "none", status |-> "none"]
Ok == [exc |-> "none", status |-> "ok"]

\* the except clauses around the calls of save_scores and get_all_scores in the
\* request handlers: none (the try of score_team covers int() only)
CaughtByHandlers == {}

\* what the caller of the failed operation makes of the exception
Propagate(e) ==
  [exc |-> e, status |-> IF e \in CaughtByHandlers THEN "handled" ELSE "unhandled"]

WaitPcs == {"u_wait", "r_wait", "n_wait"}
UpsertPcs == {"u_wait", "u_persist"}
CriticalPcs == {"u_persist", "r_read", "n_read"}

Init ==
  /\ fileExists = FALSE
  /\ file = <<>>
  /\ criteria = CriteriaA
  /\ now = 0
  /\ lock = 0
  /\ pc = [p \in Workers |-> "start"]
  /\ req = [p \in Workers |-> NoReq]
  /\ loaded = [p \in Workers |-> <<>>]
  /\ hdr = [p \in Workers |-> <<>>]
  /\ snapshot = [p \in Workers |-> <<>>]
  /\ outcome = [p \in Workers |-> NoOutcome]
  /\ result = [p \in Workers |-> NoResult]
  /\ session = NoSession

(* --------------------------- configuration edit ------------------------ *)
\* config.json is edited during the event: the criteria are reordered and one is added
EditConfig ==
  /\ criteria = CriteriaA
  /\ criteria' = CriteriaB
  /\ UNCHANGED <<session, result, fileExists, file, now, lock, pc, req, loaded, hdr, snapshot,
                 outcome>>

(* --------------------------- init_scores_file -------------------------- *)
\* line 55: the test of os.path.exists, outside any lock
InitCheck(p) ==
  /\ pc[p] = "start"
  /\ pc' = [pc EXCEPT ![p] = IF fileExists THEN "idle" ELSE "init_open"]
  /\ UNCHANGED <<session, result, fileExists, file, criteria, now, lock, req, loaded, hdr, snapshot,
                 outcome>>

\* lines 56-58: read the criteria, open(SCORES_FILE, 'w') truncates the file
InitOpen(p) ==
  /\ pc[p] = "init_open"
  /\ hdr' = [hdr EXCEPT ![p] = Headers(criteria)]
  /\ fileExists' = TRUE
  /\ file' = <<>>
  /\ pc' = [pc EXCEPT ![p] = "init_close"]
  /\ UNCHANGED <<session, result, criteria, now, lock, req, loaded, snapshot, outcome>>

\* lines 59-60: the header row is flushed at offset 0 when the file is closed;
\* over rows another worker wrote meanwhile it lands on the first row
InitClose(p) ==
  /\ pc[p] = "init_close"
  /\ file' = IF file = <<>> THEN <<hdr[p]>> ELSE [file EXCEPT ![1] = hdr[p]]
  /\ hdr' = [hdr EXCEPT ![p] = <<>>]
  /\ pc' = [pc EXCEPT ![p] = "idle"]
  /\ UNCHANGED <<session, result, fileExists, criteria, now, lock, req, loaded, snapshot, outcome>>

(* ------------------------------ FileLock ------------------------------- *)
\* FileLock(LOCK_FILE, timeout=10): the lock stayed taken for the whole timeout,
\* acquire raises Timeout, which leaves save_scores / get_all_scores
LockTimeout(p) ==
  /\ pc[p] \in WaitPcs
  /\ lock # 0
  /\ lock # p
  /\ outcome' = [outcome EXCEPT ![p] = Propagate("Timeout")]
  /\ req' = [req EXCEPT ![p] = NoReq]
  /\ pc' = [pc EXCEPT ![p] = "done"]
  /\ UNCHANGED <<session, result, fileExists, file, criteria, now, lock, loaded, hdr, snapshot>>

(* ------------------------------ save_scores ---------------------------- *)
\* lines 326-351 of score_team for a POST by judge to /score/<team_id>: an
\* unknown team is answered with a redirect, otherwise the scores are built
\* and save_scores(judge, team['id'], team['name'], scores) is called
PostScores(p, judge, team_id, form) ==
  /\ pc[p] = "idle"
  /\ now + Cardinality({q \in Workers : pc[q] \in UpsertPcs}) < MaxClock
  /\ IF FindTeam(team_id) = NoTeam
       THEN /\ pc' = [pc EXCEPT ![p] = "done"]
            /\ outcome' = [outcome EXCEPT ![p] = Ok]
            /\ req' = req
       ELSE /\ pc' = [pc EXCEPT ![p] = "u_wait"]
            /\ outcome' = outcome
            /\ req' = [req EXCEPT ![p] = [judge |-> judge,
                                          team_id |-> FindTeam(team_id).id,
                                          team_name |-> FindTeam(team_id).name,
                                          scores |-> ClampScores(form, criteria)]]
  /\ UNCHANGED <<session, result, fileExists, file, criteria, now, lock, loaded, hdr, snapshot>>

\* a logged-in judge posts the scores of one of the submissions
CallUpsert(p) ==
  \E s \in Submissions : PostScores(p, s.judge, Teams[s.team].id, Posted(s.form))

\* the rows are read without waiting for the lock
UpsertLoadNoLock(p) ==
  /\ pc[p] = "u_wait"
  /\ lock' = p
  /\ loaded' = [loaded EXCEPT ![p] = IF fileExists THEN file ELSE <<>>]
  /\ pc' = [pc EXCEPT ![p] = "u_persist"]
  /\ UNCHANGED <<session, result, fileExists, file, criteria, now, req, hdr, snapshot, outcome>>

\* lines 67-73: the lock is free, the worker takes it and reads the existing rows
UpsertLoad(p) ==
  /\ pc[p] = "u_wait"
  /\ lock = 0
  /\ lock' = p
  /\ loaded' = [loaded EXCEPT ![p] = IF fileExists THEN file ELSE <<>>]
  /\ pc' = [pc EXCEPT ![p] = "u_persist"]
  /\ UNCHANGED <<session, result, fileExists, file, criteria, now, req, hdr, snapshot, outcome>>

\* lines 76-103: read the criteria, replace or append, write all rows back,
\* leave the with block (the lock is released) and return
UpsertPersist(p) ==
  /\ pc[p] = "u_persist"
  /\ file' = UpsertRows(loaded[p], IsoFormat(now), req[p], criteria)
  /\ fileExists' = TRUE
  /\ now' = now + 1
  /\ lock' = 0
  /\ loaded' = [loaded EXCEPT ![p] = <<>>]
  /\ outcome' = [outcome EXCEPT ![p] = Ok]
  /\ pc' = [pc EXCEPT ![p] = "done"]
  /\ UNCHANGED <<session, result, criteria, req, hdr, snapshot>>

\* the exception leaves save_scores with the lock still taken
UpsertFailKeepsLock(p) ==
  /\ pc[p] = "u_persist"
  /\ loaded' = [loaded EXCEPT ![p] = <<>>]
  /\ req' = [req EXCEPT ![p] = NoReq]
  /\ outcome' = [outcome EXCEPT ![p] = Propagate("ConfigError")]
  /\ pc' = [pc EXCEPT ![p] = "done"]
  /\ UNCHANGED <<session, result, fileExists, file, criteria, now, lock, hdr, snapshot>>

\* line 76: load_config raises inside the with block (config.json unreadable
\* while it is being edited); the with statement releases the lock
UpsertFail(p) ==
  /\ pc[p] = "u_persist"
  /\ lock' = 0
  /\ loaded' = [loaded EXCEPT ![p] = <<>>]
  /\ req' = [req EXCEPT ![p] = NoReq]
  /\ outcome' = [outcome EXCEPT ![p] = Propagate("ConfigError")]
  /\ pc' = [pc EXCEPT ![p] = "done"]
  /\ UNCHANGED <<session, result, fileExists, file, criteria, now, hdr, snapshot>>

(* ----------------------------- get_all_scores -------------------------- *)
\* lines 108-111: no file, return []; otherwise go for the lock
CallReadAll(p) ==
  /\ pc[p] = "idle"
  /\ IF fileExists
       THEN /\ pc' = [pc EXCEPT ![p] = "r_wait"]
            /\ outcome' = outcome
       ELSE /\ pc' = [pc EXCEPT ![p] = "done"]
            /\ outcome' = [outcome EXCEPT ![p] = Ok]
  /\ UNCHANGED <<session, result, fileExists, file, criteria, now, lock, req, loaded, hdr, snapshot>>

\* line 112: the lock is free and the worker takes it
ReadAllLock(p) ==
  /\ pc[p] \in {"r_wait", "n_wait"}
  /\ lock = 0
  /\ lock' = p
  /\ pc' = [pc EXCEPT ![p] = IF pc[p] = "r_wait" THEN "r_read" ELSE "n_read"]
  /\ UNCHANGED <<session, result, fileExists, file, criteria, now, req, loaded, hdr, snapshot, outcome>>

\* the lock taken for get_all_scores stays taken while normalize_scores computes
ReadAllReadKeepsLock(p) ==
  /\ pc[p] \in {"r_read", "n_read"}
  /\ snapshot' = [snapshot EXCEPT ![p] = DictRead(file)]
  /\ IF pc[p] = "r_read"
       THEN /\ lock' = 0
            /\ outcome' = [outcome EXCEPT ![p] = Ok]
            /\ pc' = [pc EXCEPT ![p] = "done"]
       ELSE /\ lock' = lock
            /\ outcome' = outcome
            /\ pc' = [pc EXCEPT ![p] = "n_compute"]
  /\ UNCHANGED <<session, result, fileExists, file, criteria, now, req, loaded, hdr>>

\* lines 113-115: read the records, release the lock, return them (to the
\* request handler, or to normalize_scores at line 140)
ReadAllRead(p) ==
  /\ pc[p] \in {"r_read", "n_read"}
  /\ snapshot' = [snapshot EXCEPT ![p] = DictRead(file)]
  /\ lock' = 0
  /\ IF pc[p] = "r_read"
       THEN /\ outcome' = [outcome EXCEPT ![p] = Ok]
            /\ pc' = [pc EXCEPT ![p] = "done"]
       ELSE /\ outcome' = outcome
            /\ pc' = [pc EXCEPT ![p] = "n_compute"]
  /\ UNCHANGED <<session, result, fileExists, file, criteria, now, req, loaded, hdr>>

(* ---------------------------- normalize_scores ------------------------- *)
\* line 140 and lines 108-111: normalize_scores calls get_all_scores; with no
\* file it has [] and returns []
CallNormalize(p) ==
  /\ pc[p] = "idle"
  /\ IF fileExists
       THEN /\ pc' = [pc EXCEPT ![p] = "n_wait"]
            /\ outcome' = outcome
       ELSE /\ pc' = [pc EXCEPT ![p] = "done"]
            /\ outcome' = [outcome EXCEPT ![p] = Ok]
  /\ UNCHANGED <<session, result, fileExists, file, criteria, now, lock, req, loaded, hdr, snapshot>>

\* the records are taken in an order that is not fixed: aggregates with
\* equal averages come out in either order
ComputeUnordered(p) ==
  /\ pc[p] = "n_compute"
  /\ \E r \in {NormalizeScores(snapshot[p], criteria),
               NormalizeScores([i \in 1..Len(snapshot[p]) |->
                                  snapshot[p][Len(snapshot[p]) + 1 - i]], criteria)} :
       /\ result' = [result EXCEPT ![p] = r]
       /\ outcome' = [outcome EXCEPT ![p] =
                        IF r.exc = "none" THEN Ok ELSE Propagate(r.exc)]
  /\ pc' = [pc EXCEPT ![p] = "done"]
  /\ UNCHANGED <<session, fileExists, file, criteria, now, lock, req, loaded, hdr, snapshot>>

\* lines 141-223: read the criteria and compute the ranking, holding no lock
Compute(p) ==
  /\ pc[p] = "n_compute"
  /\ LET r == NormalizeScores(snapshot[p], criteria)
     IN /\ result' = [result EXCEPT ![p] = r]
        /\ outcome' = [outcome EXCEPT ![p] =
                         IF r.exc = "none" THEN Ok ELSE Propagate(r.exc)]
  /\ pc' = [pc EXCEPT ![p] = "done"]
  /\ UNCHANGED <<session, fileExists, file, criteria, now, lock, req, loaded, hdr, snapshot>>

(* ------------------------------- return -------------------------------- *)
\* the request ends: the worker drops the call's locals and serves the next one
Return(p) ==
  /\ pc[p] = "done"
  /\ req' = [req EXCEPT ![p] = NoReq]
  /\ snapshot' = [snapshot EXCEPT ![p] = <<>>]
  /\ outcome' = [outcome EXCEPT ![p] = NoOutcome]
  /\ result' = [result EXCEPT ![p] = NoResult]
  /\ pc' = [pc EXCEPT ![p] = "idle"]
  /\ UNCHANGED <<session, fileExists, file, criteria, now, lock, loaded, hdr>>

(* ------------------------------- sessions ------------------------------ *)
\* 'key' in session
HasKey(sess, key) == \E kv \in sess : kv[1] = key
\* session[key]
Get(sess, key) == (CHOOSE kv \in sess : kv[1] = key)[2]
\* session[key] = value
Put(sess, key, value) == {kv \in sess : kv[1] # key} \cup {<<key, value>>}

\* get_judges() and get_admins(): username -> password
JudgeAccounts == [u \in Judges |-> "pw-" \o u]
AdminAccounts == [u \in {"root"} |-> "pw-root"]

\* the credentials clients post to /login: right ones and a judge's name with
\* another judge's password
Credentials == {<<"A", "pw-A">>, <<"B", "pw-B">>, <<"root", "pw-root">>, <<"A", "pw-B">>}

\* lines 263-282 of login: admin credentials are checked first, then judge
\* credentials; a wrong pair leaves the session as it is
Login(p) ==
  /\ pc[p] = "idle"
  /\ \E cred \in Credentials :
       session' =
         IF cred[1] \in DOMAIN AdminAccounts /\ AdminAccounts[cred[1]] = cred[2]
           THEN Put(session, "admin", cred[1])
         ELSE IF cred[1] \in DOMAIN JudgeAccounts /\ JudgeAccounts[cred[1]] = cred[2]
           THEN Put(session, "judge", cred[1])
         ELSE session
  /\ UNCHANGED <<fileExists, file, criteria, now, lock, pc, req, loaded, hdr, snapshot,
                 outcome, result>>

\* lines 290-291 of logout: both keys are popped
Logout(p) ==
  /\ pc[p] = "idle"
  /\ session # NoSession
  /\ session' = NoSession
  /\ UNCHANGED <<fileExists, file, criteria, now, lock, pc, req, loaded, hdr, snapshot,
                 outcome, result>>

\* lines 229-231: login_required lets the request through
PassesLoginRequired(sess) == HasKey(sess, "judge") \/ HasKey(sess, "admin")
\* lines 239-242: admin_required lets the request through
PassesAdminRequired(sess) == HasKey(sess, "admin")

\* session['judge'] raises KeyError, which nothing catches
FailNoJudge(p) ==
  /\ pc' = [pc EXCEPT ![p] = "done"]
  /\ outcome' = [outcome EXCEPT ![p] = Propagate("KeyError: 'judge'")]
  /\ UNCHANGED <<fileExists, file, criteria, now, lock, req, loaded, hdr, snapshot,
                 result, session>>

\* lines 297-302 of dashboard behind login_required: session['judge'], then
\* get_judge_scores(judge) calls get_all_scores
Dashboard(p) ==
  /\ pc[p] = "idle"
  /\ PassesLoginRequired(session)
  /\ IF HasKey(session, "judge") THEN CallReadAll(p) ELSE FailNoJudge(p)

\* the team ids of the URLs clients post to: a team of the configuration and
\* one that is none
UrlTeamIds == {Teams[1].id, "T9"}

\* the forms clients post: a value above max_score and a negative one; a
\* missing value, a decimal and a value for an id that is no criterion
PostedForms == { [c1 |-> "7", c2 |-> "-2"], [c2 |-> "2.5", c3 |-> "4"] }

\* the judge named in the request stands in for session['judge']
ScoreTeamAnyJudge(p) ==
  /\ pc[p] = "idle"
  /\ PassesLoginRequired(session)
  /\ IF HasKey(session, "judge")
       THEN \E judge \in Judges, team_id \in UrlTeamIds, form \in PostedForms :
              PostScores(p, judge, team_id, form)
       ELSE FailNoJudge(p)

\* lines 322-351 of score_team behind login_required, for a POST
ScoreTeam(p) ==
  /\ pc[p] = "idle"
  /\ PassesLoginRequired(session)
  /\ IF HasKey(session, "judge")
       THEN \E team_id \in UrlTeamIds, form \in PostedForms :
              PostScores(p, Get(session, "judge"), team_id, form)
       ELSE FailNoJudge(p)

\* lines 367-370 of results behind admin_required: session['admin'], then
\* normalize_scores()
Results(p) ==
  /\ pc[p] = "idle"
  /\ PassesAdminRequired(session)
  /\ CallNormalize(p)

(* ------------------------------ the system ----------------------------- *)
WorkerStep(p) ==
  \/ InitCheck(p)
  \/ InitOpen(p)
  \/ InitClose(p)
  \/ ReadAllLock(p)
  \/ LockTimeout(p)
  \/ CallUpsert(p)
  \/ UpsertLoad(p)
  \/ UpsertPersist(p)
  \/ UpsertFail(p)
  \/ CallReadAll(p)
  \/ ReadAllRead(p)
  \/ Return(p)

Next ==
  \/ EditConfig
  \/ \E p \in Workers : WorkerStep(p)

Spec == Init /\ [][Next]_vars

\* the steps a running call takes by itself: a waiting worker either gets the
\* lock or runs into the timeout, a worker inside the with block leaves it
Progress(p) ==
  \/ LockTimeout(p)
  \/ UpsertLoad(p)
  \/ UpsertPersist(p)
  \/ UpsertFail(p)
  \/ ReadAllLock(p)
  \/ ReadAllRead(p)

(* Workers that have finished start-up serve calls on a store an earlier    *)
(* run left behind.                                                        *)
ServeInit ==
  /\ fileExists = TRUE
  /\ file = <<Headers(CriteriaA)>>
  /\ criteria = CriteriaA
  /\ now = 0
  /\ lock = 0
  /\ pc = [p \in Workers |-> "idle"]
  /\ req = [p \in Workers |-> NoReq]
  /\ loaded = [p \in Workers |-> <<>>]
  /\ hdr = [p \in Workers |-> <<>>]
  /\ snapshot = [p \in Workers |-> <<>>]
  /\ outcome = [p \in Workers |-> NoOutcome]
  /\ result = [p \in Workers |-> NoResult]
  /\ session = NoSession

ServeNext ==
  \E p \in Workers :
    \/ LockTimeout(p)
    \/ CallUpsert(p)
    \/ UpsertLoad(p)
    \/ UpsertPersist(p)
    \/ UpsertFail(p)
    \/ CallReadAll(p)
    \/ ReadAllLock(p)
    \/ ReadAllRead(p)
    \/ Return(p)

\* a running call is scheduled: the polling loop of FileLock.acquire and the
\* straight-line code inside the with block keep taking steps
FairSpec == ServeInit /\ [][ServeNext]_vars /\ \A p \in Workers : WF_vars(Progress(p))

(* A client logs in and out and calls the pages behind the guards, its     *)
(* requests served by any worker, on a store an earlier run left behind.   *)
\* the client waits for the answer before it sends its next request
HandlerNext ==
  \E p \in Workers :
    /\ \A q \in Workers : q # p => pc[q] = "idle"
    /\ \/ Login(p)
       \/ Logout(p)
       \/ Dashboard(p)
       \/ ScoreTeam(p)
       \/ Results(p)
       \/ UpsertLoad(p)
       \/ UpsertPersist(p)
       \/ ReadAllLock(p)
       \/ ReadAllRead(p)
       \/ Compute(p)
       \/ Return(p)

HandlerSpec == ServeInit /\ [][HandlerNext]_vars

(* normalize_scores on the stores the judges can have left behind: a header *)
(* written under one configuration, the rows under one, read under one.    *)
MaxRows == 3
JudgeTeam == {<<j, t>> : j \in Judges, t \in 1..Len(Teams)}
Forms == {FormX, FormY}

\* the rows of at most MaxRows submissions for different (judge, team) pairs
StoredRows(crit) ==
  UNION { { [i \in 1..n |-> NewRow(IsoFormat(i), who[i][1], Teams[who[i][2]].id,
                                   Teams[who[i][2]].name, what[i], crit)] :
              who \in {w \in [1..n -> JudgeTeam] :
                         \A a, b \in 1..n : a # b => w[a] # w[b]},
              what \in [1..n -> Forms] } : n \in 0..MaxRows }

NormInit ==
  /\ fileExists = TRUE
  /\ \E h \in CriteriaConfigs, c \in CriteriaConfigs :
       file \in {<<Headers(h)>> \o rows : rows \in StoredRows(c)}
  /\ criteria \in CriteriaConfigs
  /\ now = 0
  /\ lock = 0
  /\ pc = [p \in Workers |-> "idle"]
  /\ req = [p \in Workers |-> NoReq]
  /\ loaded = [p \in Workers |-> <<>>]
  /\ hdr = [p \in Workers |-> <<>>]
  /\ snapshot = [p \in Workers |-> <<>>]
  /\ outcome = [p \in Workers |-> NoOutcome]
  /\ result = [p \in Workers |-> NoResult]
  /\ session = NoSession

\* one request for the ranking at a time
NormNext ==
  \E p \in Workers :
    /\ \A q \in Workers : q # p => pc[q] = "idle"
    /\ \/ CallNormalize(p)
       \/ ReadAllLock(p)
       \/ ReadAllRead(p)
       \/ Compute(p)
       \/ Return(p)

NormSpec == NormInit /\ [][NormNext]_vars

TypeOK ==
  /\ fileExists \in BOOLEAN
  /\ lock \in 0..NumWorkers
  /\ now \in 0..MaxClock
  /\ criteria \in CriteriaConfigs

(* ======================= properties of the ledger ====================== *)
\* the ledger as ReadAll sees it
Ledger == DictRead(file)

HasRecord(recs, judge, team_id) ==
  \E i \in 1..Len(recs) : recs[i]["judge"] = judge /\ recs[i]["team_id"] = team_id

\* worker p's save_scores call has returned normally
UpsertReturned(p) == pc[p] = "done" /\ outcome[p] = Ok /\ req[p] # NoReq

\* the step in which worker p's save_scores writes the file and returns
PersistStep(p) == pc[p] = "u_persist" /\ pc'[p] = "done" /\ outcome'[p] = Ok

\* C1: in every reachable state the ledger holds at most one record for each
\* (judge_id, entry_id) pair.
C1_OneRecordPerPair ==
  LET recs == Ledger
  IN \A i, k \in 1..Len(recs) :
       (recs[i]["judge"] = recs[k]["judge"] /\ recs[i]["team_id"] = recs[k]["team_id"])
         => i = k

\* a record that stands before a record with an older timestamp: it was
\* resubmitted after the other one was appended, and there is still one of it
C1_Witness ==
  \E i, k \in 1..Len(Ledger) :
    /\ i < k
    /\ Ledger[i]["timestamp"] = IsoFormat(2)
    /\ Ledger[k]["timestamp"] = IsoFormat(1)

\* C2: when every worker has called Upsert for a pair of its own and all the
\* calls have returned, the ledger holds a record for every one of the pairs.
C2_NoLostUpdates ==
  ( /\ \A p \in Workers : UpsertReturned(p)
    /\ \A p, q \in Workers :
         p # q => <<req[p].judge, req[p].team_id>> # <<req[q].judge, req[q].team_id>> )
  => \A p \in Workers : HasRecord(Ledger, req[p].judge, req[p].team_id)

\* C3: at most one worker is between lock acquisition and release; while an
\* Upsert is between its load and its persist no other Upsert loads or writes
\* and no ReadAll reads.
C3_MutualExclusion ==
  /\ Cardinality({p \in Workers : pc[p] \in CriticalPcs}) <= 1
  /\ \A p \in Workers : pc[p] \in CriticalPcs => lock = p

C3_NoInterference ==
  \A p, q \in Workers :
    (p # q /\ pc[p] = "u_persist")
      => /\ loaded'[q] = loaded[q]
         /\ (snapshot'[q] # snapshot[q] => pc[q] = "done")
         /\ pc'[q] \notin CriticalPcs
         /\ ~PersistStep(q)

C3_Atomic == [](C3_MutualExclusion) /\ [][C3_NoInterference]_vars

\* an Upsert holds the lock between load and persist while another call waits
C3_Witness ==
  \E p, q \in Workers : pc[p] = "u_persist" /\ pc[q] \in WaitPcs /\ Len(loaded[p]) >= 2

\* C4: an Upsert(judge, entry, scores) that returns, followed by ReadAll, yields
\* exactly one record for (judge, entry) whose value under each active
\* criterion id is the value submitted for that id.  Checked at the step in
\* which save_scores persists: ReadAllRead returns DictRead of the file.
RoundTrip(recs, r, crit) ==
  /\ Cardinality({i \in 1..Len(recs) :
                    recs[i]["judge"] = r.judge /\ recs[i]["team_id"] = r.team_id}) = 1
  /\ \A i \in 1..Len(recs) :
       (recs[i]["judge"] = r.judge /\ recs[i]["team_id"] = r.team_id)
         => \A cid \in IdSet(crit) \cap DOMAIN r.scores :
              /\ cid \in DOMAIN recs[i]
              /\ ToNumeric(recs[i][cid]) = r.scores[cid]

C4_RoundTrip ==
  [][\A p \in Workers : PersistStep(p) => RoundTrip(DictRead(file'), req[p], criteria)]_vars

\* C5: relative to the rows it loaded under the lock, an Upsert for a pair
\* that has a record replaces that record at the same position, an Upsert for
\* a pair without a record appends at the end, and every other row keeps its
\* content and position.
FrameOfUpsert(old, new, r) ==
  LET hits == {i \in 2..Len(old) : old[i][2] = r.judge /\ old[i][3] = r.team_id}
  IN IF hits # {}
       THEN /\ Len(new) = Len(old)
            /\ \E i \in hits :
                 /\ \A k \in hits : i <= k
                 /\ new[i][2] = r.judge /\ new[i][3] = r.team_id
                 /\ \A k \in 1..Len(old) : k # i => new[k] = old[k]
       ELSE /\ Len(new) = (IF old = <<>> THEN 1 ELSE Len(old)) + 1
            /\ new[Len(new)][2] = r.judge /\ new[Len(new)][3] = r.team_id
            /\ \A k \in 1..Len(old) : new[k] = old[k]

C5_UpsertFrame ==
  [][\A p \in Workers : PersistStep(p) => FrameOfUpsert(loaded[p], file', req[p])]_vars

\* a worker has just replaced the first of two records in place
C5_Witness ==
  \E p \in Workers :
    /\ UpsertReturned(p)
    /\ Len(file) = 3
    /\ file[2][1] = IsoFormat(2) /\ file[2][2] = req[p].judge /\ file[2][3] = req[p].team_id
    /\ file[3][1] = IsoFormat(1)

\* C6: records are never deleted: a pair that has a record in the ledger has
\* one in every later state, whatever Initialize, Upsert and ReadAll steps follow.
C6_NeverDeleted ==
  [][\A i \in 1..Len(Ledger) :
       HasRecord(DictRead(file'), Ledger[i]["judge"], Ledger[i]["team_id"])]_vars

\* C7: a call that ends in the lock timeout ends for its caller as a handled
\* outcome, not as an exception nobody catches.
C7_TimeoutHandled ==
  \A p \in Workers : outcome[p].exc = "Timeout" => outcome[p].status = "handled"

\* C8: every invoked Upsert and ReadAll eventually returns, a worker that is
\* not inside the with block does not hold the lock, and a held lock is
\* eventually free again.
C8_LockReleased ==
  \A p \in Workers : pc[p] \notin CriticalPcs => lock # p

C8_NoBlocking ==
  /\ \A p \in Workers : (pc[p] \in WaitPcs \cup CriticalPcs) ~> (pc[p] = "done")
  /\ [](C8_LockReleased)
  /\ (lock # 0) ~> (lock = 0)

\* a save_scores call failed inside the with block and the lock is free
C8_Witness ==
  \E p \in Workers : pc[p] = "done" /\ outcome[p].exc = "ConfigError" /\ lock = 0

(* =================== properties of normalize_scores ==================== *)
\* worker p's normalize_scores call has returned a ranking of snapshot[p]
Ranked(p) == pc[p] = "done" /\ result[p].exc = "none" /\ result[p].ranking # <<>>

\* the number a record holds under a criterion id: 0 when the record has no
\* such field or the field is no number
ScoreOrZero(rec, cid) == IF cid \in DOMAIN rec THEN ToNumeric(rec[cid]) ELSE 0

\* C9: computing raw_total never raises, and each record's raw_total is the
\* sum of its scores over the active criterion ids, an absent or malformed
\* one counting 0.
C9_RawTotalNeverRaises ==
  \A p \in Workers :
    /\ result[p].exc = "none"
    /\ Ranked(p) =>
         \A i \in 1..Len(snapshot[p]) :
           \E e \in 1..Len(result[p].ranking) :
             LET agg == result[p].ranking[e]
             IN /\ agg.team_id = snapshot[p][i]["team_id"]
                /\ \E k \in 1..Len(agg.judge_scores) :
                     /\ agg.judge_scores[k].judge = snapshot[p][i]["judge"]
                     /\ agg.judge_scores[k].raw_score =
                          SumSeq([c \in 1..Len(criteria) |->
                                    ScoreOrZero(snapshot[p][i], criteria[c].id)])

\* C10: a judge who has exactly one record in the snapshot gets the
\* normalized score 50.00 for it, whatever its raw total.
RecordsOfJudge(all_scores, j) == {i \in 1..Len(all_scores) : all_scores[i]["judge"] = j}

C10_SingleRecordIsFifty ==
  \A p \in Workers :
    Ranked(p) =>
      \A e \in 1..Len(result[p].ranking) :
        \A k \in 1..Len(result[p].ranking[e].judge_scores) :
          LET js == result[p].ranking[e].judge_scores[k]
          IN Cardinality(RecordsOfJudge(snapshot[p], js.judge)) = 1
               => js.normalized_score = 5000

\* a ranking in which one judge has a single record with a positive raw total
\* and another judge has records that are not at 50.00
C10_Witness ==
  \E p \in Workers :
    /\ Ranked(p)
    /\ \E e, f \in 1..Len(result[p].ranking) :
         /\ \E k \in 1..Len(result[p].ranking[e].judge_scores) :
              LET js == result[p].ranking[e].judge_scores[k]
              IN /\ Cardinality(RecordsOfJudge(snapshot[p], js.judge)) = 1
                 /\ js.raw_score > 0
                 /\ js.normalized_score = 5000
         /\ \E k \in 1..Len(result[p].ranking[f].judge_scores) :
              result[p].ranking[f].judge_scores[k].normalized_score > 5000

\* the judge_scores entries of judge j in a ranking, as <<aggregate, position>>
ScoresOfJudge(ranking, j) ==
  {ek \in UNION {{<<e, k>> : k \in 1..Len(ranking[e].judge_scores)} : e \in 1..Len(ranking)} :
     ranking[ek[1]].judge_scores[ek[2]].judge = j}

JudgeScore(ranking, ek) == ranking[ek[1]].judge_scores[ek[2]]

\* C11: a judge with two or more records whose raw totals are all equal gets
\* the normalized score 50.00 for every one of them (z = 0, no division by a
\* zero standard deviation).
C11_EqualTotalsAreFifty ==
  \A p \in Workers :
    Ranked(p) =>
      \A j \in Judges :
        LET mine == ScoresOfJudge(result[p].ranking, j)
        IN ( /\ Cardinality(mine) >= 2
             /\ \A a, b \in mine : JudgeScore(result[p].ranking, a).raw_score
                                     = JudgeScore(result[p].ranking, b).raw_score )
           => \A a \in mine : JudgeScore(result[p].ranking, a).normalized_score = 5000

\* a ranking in which one judge has two records with the same positive raw total
C11_Witness ==
  \E p \in Workers :
    /\ Ranked(p)
    /\ \E j \in Judges :
         LET mine == ScoresOfJudge(result[p].ranking, j)
         IN /\ Cardinality(mine) = 2
            /\ Cardinality(RecordsOfJudge(snapshot[p], j)) = 2
            /\ \A a, b \in mine : JudgeScore(result[p].ranking, a).raw_score
                                    = JudgeScore(result[p].ranking, b).raw_score
            /\ \A a \in mine : /\ JudgeScore(result[p].ranking, a).raw_score > 0
                               /\ JudgeScore(result[p].ranking, a).normalized_score = 5000

(* normalize_scores on stores in which two judges have scored up to        *)
(* MaxTeams teams each: with eleven or more records of one judge a total   *)
(* can lie three sample standard deviations from the judge's mean.         *)
MaxTeams == 12
WideTeam(i) == [id |-> "E" \o FormatInt(i), name |-> "Entry" \o FormatInt(i)]

\* the scores of a form on a scale k times as wide
Scaled(form, k) == [c \in DOMAIN form |-> k * form[c]]
Scales == {1, 10}

\* judge's rows for the teams 1..n, the first m of them with FormX, the rest
\* with FormY, on the scale k
WideRows(judge, n, m, k) ==
  [i \in 1..n |-> NewRow(IsoFormat(i), judge, WideTeam(i).id, WideTeam(i).name,
                         Scaled(IF i <= m THEN FormX ELSE FormY, k), CriteriaA)]

WideInit ==
  /\ fileExists = TRUE
  /\ \E n \in 2..MaxTeams : \E ma, mb \in 0..n : \E k \in Scales :
       file = <<Headers(CriteriaA)>> \o WideRows("A", n, ma, k) \o WideRows("B", n, mb, 1)
  /\ criteria \in CriteriaConfigs
  /\ now = 0
  /\ lock = 0
  /\ pc = [p \in Workers |-> "idle"]
  /\ req = [p \in Workers |-> NoReq]
  /\ loaded = [p \in Workers |-> <<>>]
  /\ hdr = [p \in Workers |-> <<>>]
  /\ snapshot = [p \in Workers |-> <<>>]
  /\ outcome = [p \in Workers |-> NoOutcome]
  /\ result = [p \in Workers |-> NoResult]
  /\ session = NoSession

WideSpec == WideInit /\ [][NormNext]_vars

RECURSIVE SumRaw(_, _)
\* the sum of the raw scores of the entries S of a ranking
SumRaw(ranking, S) ==
  IF S = {} THEN 0
  ELSE LET a == CHOOSE a \in S : TRUE
       IN JudgeScore(ranking, a).raw_score + SumRaw(ranking, S \ {a})

RECURSIVE SumSqDev(_, _, _, _)
\* the sum over S of (n * raw - s)^2
SumSqDev(ranking, S, n, s) ==
  IF S = {} THEN 0
  ELSE LET a == CHOOSE a \in S : TRUE
           d == n * JudgeScore(ranking, a).raw_score - s
       IN d * d + SumSqDev(ranking, S \ {a}, n, s)

\* sgn * z >= 3 for entry a, z = (raw - mean) / std over the records of a's
\* judge, std the sample standard deviation: (n raw - s)^2 (n - 1) >= 9 q
ZBeyond3(ranking, a, sgn) ==
  LET mine == ScoresOfJudge(ranking, JudgeScore(ranking, a).judge)
      n == Cardinality(mine)
      s == SumRaw(ranking, mine)
      q == SumSqDev(ranking, mine, n, s)
      d == n * JudgeScore(ranking, a).raw_score - s
  IN n > 1 /\ q > 0 /\ sgn * d > 0 /\ d * d * (n - 1) >= 9 * q

AllScores(ranking) == ScoresOfJudge(ranking, "A") \cup ScoresOfJudge(ranking, "B")

\* C12: every normalized score and every avg_normalized of a ranking lies in
\* [0, 100]; a record with z >= 3 gets exactly 100.00 and a record with
\* z <= -3 exactly 0.00.
C12_Clamped ==
  \A p \in Workers :
    Ranked(p) =>
      LET ranking == result[p].ranking
      IN /\ \A e \in 1..Len(ranking) : ranking[e].avg_normalized_score \in 0..10000
         /\ \A a \in AllScores(ranking) :
              /\ JudgeScore(ranking, a).normalized_score \in 0..10000
              /\ ZBeyond3(ranking, a, 1) => JudgeScore(ranking, a).normalized_score = 10000
              /\ ZBeyond3(ranking, a, -1) => JudgeScore(ranking, a).normalized_score = 0

\* a ranking with a record three standard deviations above its judge's mean
\* at 100.00 and a record three below its judge's mean at 0.00
C12_Witness ==
  \E p \in Workers :
    /\ Ranked(p)
    /\ \E a, b \in AllScores(result[p].ranking) :
         /\ ZBeyond3(result[p].ranking, a, 1)
         /\ JudgeScore(result[p].ranking, a).normalized_score = 10000
         /\ ZBeyond3(result[p].ranking, b, -1)
         /\ JudgeScore(result[p].ranking, b).normalized_score = 0

\* (raw - mean) / std of entry a over the entries of a's judge only, std the
\* sample standard deviation, as sgn * sqrt(num / den)
ZOfJudge(ranking, a) ==
  LET mine == ScoresOfJudge(ranking, JudgeScore(ranking, a).judge)
      n == Cardinality(mine)
      s == SumRaw(ranking, mine)
      d == n * JudgeScore(ranking, a).raw_score - s
  IN [sgn |-> IF d > 0 THEN 1 ELSE IF d < 0 THEN -1 ELSE 0,
      num |-> d * d * (n - 1),
      den |-> SumSqDev(ranking, mine, n, s)]

\* judge j has exactly two records in the ranking, with the raw totals hi and lo
TwoRecords(ranking, j, hi, lo) ==
  /\ Cardinality(ScoresOfJudge(ranking, j)) = 2
  /\ \E a, b \in ScoresOfJudge(ranking, j) :
       JudgeScore(ranking, a).raw_score = hi /\ JudgeScore(ranking, b).raw_score = lo

\* C13: a judge with exactly two records of raw totals 80 and 60 gets the
\* normalized scores 61.79 and 38.21 (z about 0.707 and -0.707, sample std);
\* every record of a judge with more than one record and std > 0 is scaled
\* from z = (raw_total - mean) / std over that judge's records only.
C13_SampleZScore ==
  \A p \in Workers :
    Ranked(p) =>
      LET ranking == result[p].ranking
      IN \A a \in AllScores(ranking) :
           LET js == JudgeScore(ranking, a)
               z == ZOfJudge(ranking, a)
           IN /\ (TwoRecords(ranking, js.judge, 80, 60) /\ js.raw_score = 80)
                   => js.normalized_score = 6179
              /\ (TwoRecords(ranking, js.judge, 80, 60) /\ js.raw_score = 60)
                   => js.normalized_score = 3821
              /\ (Cardinality(ScoresOfJudge(ranking, js.judge)) > 1 /\ z.den > 0)
                   => js.normalized_score = NormalizedScore(z)

\* judge A has the totals 80 and 60 and nothing else, at 61.79 and 38.21,
\* while judge B has records of its own with another spread
C13_Witness ==
  \E p \in Workers :
    /\ Ranked(p)
    /\ TwoRecords(result[p].ranking, "A", 80, 60)
    /\ TwoRecords(result[p].ranking, "B", 6, 8)
    /\ \E a \in ScoresOfJudge(result[p].ranking, "A") :
         /\ JudgeScore(result[p].ranking, a).raw_score = 80
         /\ JudgeScore(result[p].ranking, a).normalized_score = 6179

\* the smallest element of a non-empty set of integers
Least(S) == CHOOSE x \in S : \A y \in S : x <= y

\* where team t stands in the grouping order: the records are taken judge by
\* judge (judges in order of first appearance), the teams in order of first
\* appearance among the records so arranged
GroupPos(all_scores, t) ==
  LET n == Len(all_scores)
      JudgeRank(j) == Least({i \in 1..n : all_scores[i]["judge"] = j})
  IN Least({JudgeRank(all_scores[i]["judge"]) * (n + 1) + i :
              i \in {k \in 1..n : all_scores[k]["team_id"] = t}})

\* C14: the ranking has exactly one aggregate per distinct team_id of the
\* snapshot, is sorted by avg_normalized descending, and aggregates with equal
\* avg_normalized stand in their grouping order (stable sort).
C14_SortedStable ==
  \A p \in Workers :
    Ranked(p) =>
      LET ranking == result[p].ranking
          snap == snapshot[p]
      IN /\ {ranking[e].team_id : e \in 1..Len(ranking)}
              = {snap[i]["team_id"] : i \in 1..Len(snap)}
         /\ \A e, f \in 1..Len(ranking) :
              ranking[e].team_id = ranking[f].team_id => e = f
         /\ \A e, f \in 1..Len(ranking) :
              e < f =>
                /\ ranking[e].avg_normalized_score >= ranking[f].avg_normalized_score
                /\ ranking[e].avg_normalized_score = ranking[f].avg_normalized_score
                     => GroupPos(snap, ranking[e].team_id) < GroupPos(snap, ranking[f].team_id)

\* a ranking of three records with two aggregates at the same average, the
\* second team of the configuration first because its record comes first
C14_Witness ==
  \E p \in Workers :
    /\ Ranked(p)
    /\ Len(result[p].ranking) = 2
    /\ result[p].ranking[1].team_id = Teams[2].id
    /\ result[p].ranking[1].avg_normalized_score = result[p].ranking[2].avg_normalized_score
    /\ result[p].ranking[1].num_judges + result[p].ranking[2].num_judges = 3

(* Rankings requested while judges submit: the workers serve save_scores   *)
(* and normalize_scores calls on a store an earlier run left behind, empty *)
(* or with one record of each judge for the other judge's team.            *)
EarlierRows ==
  <<NewRow("earlier", "A", Teams[2].id, Teams[2].name, FormY, CriteriaA),
    NewRow("earlier", "B", Teams[1].id, Teams[1].name, FormX, CriteriaA)>>

RankInit ==
  /\ fileExists = TRUE
  /\ file \in {<<Headers(CriteriaA)>>, <<Headers(CriteriaA)>> \o EarlierRows}
  /\ criteria = CriteriaA
  /\ now = 0
  /\ lock = 0
  /\ pc = [p \in Workers |-> "idle"]
  /\ req = [p \in Workers |-> NoReq]
  /\ loaded = [p \in Workers |-> <<>>]
  /\ hdr = [p \in Workers |-> <<>>]
  /\ snapshot = [p \in Workers |-> <<>>]
  /\ outcome = [p \in Workers |-> NoOutcome]
  /\ result = [p \in Workers |-> NoResult]
  /\ session = NoSession

RankNext ==
  \E p \in Workers :
    \/ LockTimeout(p)
    \/ CallUpsert(p)
    \/ UpsertLoad(p)
    \/ UpsertPersist(p)
    \/ CallNormalize(p)
    \/ ReadAllLock(p)
    \/ ReadAllRead(p)
    \/ Compute(p)
    \/ Return(p)

RankSpec == RankInit /\ [][RankNext]_vars

\* worker p's normalize_scores call has returned
Computed(p) == pc[p] = "done" /\ req[p] = NoReq /\ outcome[p] = Ok

C16_NoLockWhileComputing ==
  \A p \in Workers :
    pc[p] = "n_compute" =>
      /\ lock # p
      /\ \A q \in Workers :
           (pc[q] = "u_wait" /\ \A r \in Workers : pc[r] \notin CriticalPcs)
             => ENABLED UpsertLoad(q)

C16_SingleRead ==
  \A p \in Workers :
    /\ (pc[p] = "n_read" /\ pc'[p] = "n_compute")
         => (file' = file /\ snapshot'[p] = DictRead(file))
    /\ pc[p] = "n_compute" => snapshot'[p] = snapshot[p]
    /\ (pc[p] = "n_compute" /\ pc'[p] = "done")
         => result'[p] = NormalizeScores(snapshot[p], criteria)

C16_OneSnapshot == [](C16_NoLockWhileComputing) /\ [][C16_SingleRead]_vars

\* a worker has returned a ranking that lacks the record another worker's
\* save_scores wrote in the meantime
C16_Witness ==
  \E p, q \in Workers :
    /\ Ranked(p)
    /\ UpsertReturned(q)
    /\ ~HasRecord(snapshot[p], req[q].judge, req[q].team_id)
    /\ HasRecord(Ledger, req[q].judge, req[q].team_id)
    /\ Len(Ledger) = Len(snapshot[p]) + 1

(* ====================== properties of the handlers ===================== *)
\* the score the claim gives for criterion c of a posted form: max_score for
\* a value above it, 0 for a negative, a missing or a non-integer value
ScoreAsClaimed(form, c) ==
  IF c.id \notin DOMAIN form THEN 0
  ELSE IF ~IsIntText(form[c.id]) THEN 0
  ELSE IF IntOf(form[c.id]) > c.max_score THEN c.max_score
  ELSE IF IntOf(form[c.id]) < 0 THEN 0
  ELSE IntOf(form[c.id])

\* the step in which score_team hands worker p's scores to save_scores
SubmitStep(p) == pc[p] = "idle" /\ pc'[p] = "u_wait"

\* C17: every score score_team passes to save_scores is an integer in
\* [0, max_score] of its criterion as configured at submission time (above
\* max_score gives max_score, negative gives 0, missing or non-integer gives
\* 0), and every score cell of a ledger written through score_team is in its
\* criterion's range.
C17_SubmittedInRange ==
  \A p \in Workers :
    SubmitStep(p) =>
      /\ DOMAIN req'[p].scores = IdSet(criteria)
      /\ \A i \in 1..Len(criteria) :
           req'[p].scores[criteria[i].id] \in 0..criteria[i].max_score
      /\ \E form \in PostedForms :
           \A i \in 1..Len(criteria) :
             req'[p].scores[criteria[i].id] = ScoreAsClaimed(form, criteria[i])

C17_LedgerInRange ==
  \A r \in 2..Len(file) :
    \A i \in 1..Len(criteria) :
      /\ IsIntText(file[r][4 + i])
      /\ IntOf(file[r][4 + i]) \in 0..criteria[i].max_score

C17_ScoresClamped == [](C17_LedgerInRange) /\ [][C17_SubmittedInRange]_vars

\* the form with "7" and "-2" has been stored as 5 and 0
C17_Witness ==
  \E p \in Workers :
    /\ UpsertReturned(p)
    /\ req[p].scores = [c1 |-> 5, c2 |-> 0]
    /\ \E r \in 2..Len(file) :
         file[r][2] = req[p].judge /\ file[r][5] = "5" /\ file[r][6] = "0"

\* C18: the header is written once and never migrated: a store that has a
\* header row keeps it in every step, whatever the configured criteria are;
\* a header is written only to a missing or empty store, and it names the
\* fixed leading columns followed by the criterion ids in configured order.
C18_HeaderWrittenOnce ==
  [][ /\ (fileExists /\ file # <<>>) => (file' # <<>> /\ file'[1] = file[1])
      /\ ((~fileExists \/ file = <<>>) /\ file' # <<>>)
           => \E crit \in CriteriaConfigs : file'[1] = Headers(crit) ]_vars

\* C19: judge isolation: a record that is new or changed after a step has
\* been written by the save_scores call of a submission made in a session
\* logged in as the record's judge, for a team of the configuration and for
\* that (judge, team) pair only; every record of another pair stays as it is.
C19_WrittenByOwnJudge ==
  LET before == DictRead(file)
      after == DictRead(file')
  IN /\ \A i \in 1..Len(after) :
          (\A k \in 1..Len(before) : before[k] # after[i]) =>
            /\ HasKey(session, "judge")
            /\ after[i]["judge"] = Get(session, "judge")
            /\ \E t \in 1..Len(Teams) : Teams[t].id = after[i]["team_id"]
            /\ \E p \in Workers :
                 /\ PersistStep(p)
                 /\ req[p].judge = after[i]["judge"]
                 /\ req[p].team_id = after[i]["team_id"]
     /\ \A k \in 1..Len(before) :
          (\A i \in 1..Len(after) : after[i] # before[k]) =>
            \E p \in Workers :
              /\ PersistStep(p)
              /\ req[p].judge = before[k]["judge"]
              /\ req[p].team_id = before[k]["team_id"]
              /\ HasKey(session, "judge")
              /\ before[k]["judge"] = Get(session, "judge")

C19_JudgeIsolation == [][C19_WrittenByOwnJudge]_vars

\* the client, logged in as admin and, after judge A, as judge B, has stored
\* a record of B next to the record it stored as A
C19_Witness ==
  \E p \in Workers :
    /\ UpsertReturned(p)
    /\ req[p].judge = "B"
    /\ session = {<<"judge", "B">>, <<"admin", "root">>}
    /\ HasRecord(Ledger, "A", Teams[1].id)
    /\ HasRecord(Ledger, "B", Teams[1].id)

\* C20: the guards are sufficient for their handlers: no request that passed
\* login_required or admin_required ends in the KeyError of a missing
\* session['judge'] or session['admin'].
C20_GuardsSufficient ==
  \A p \in Workers :
    outcome[p].exc \notin {"KeyError: 'judge'", "KeyError: 'admin'"}

====
